---- MODULE Spec2Model ----
(***************************************************************************)
(* Ultimate Coding System: the SQLite-backed skill profile (database.py)   *)
(* and the handlers of the IDE window that read and write it (main.py).    *)
(*                                                                         *)
(* The database file outlives the process, so its tables are state of     *)
(* their own; the window's attributes are reset by every start.  Python's  *)
(* None is modelled by 0 for user_id (sqlite row ids start at 1) and by    *)
(* the string "None" for db.  Message and label texts are modelled by a    *)
(* short tag naming which text the code produced.                          *)
(***************************************************************************)
EXTENDS Integers, Sequences, FiniteSets, TLC

VARIABLES
    appdata,          \* os.getenv('APPDATA') is set
    groq,             \* GROQ_AVAILABLE, fixed when main.py is imported
    hasUserTables,    \* the file has the users and skills tables
    hasProjectsTable, \* the file has the projects table
    projects,         \* rows of projects, in id order: [id, title]
    users,            \* rows of users, in id order: [id, name]
    skills,           \* rows of skills, in rowid order: [user_id, skill_name, level]
    pc,               \* "off" (no window) or "running" (event loop)
    db,               \* IDEWindow.db: "None" or "open"
    user_id,          \* IDEWindow.user_id, 0 for None
    user_name,        \* IDEWindow.user_name
    profile_label,    \* [set, text]: the rendered skills label, if created
    chat,             \* chat_display: the messages appended, as [role, text]
    output_label,     \* output_label's text
    tempFiles,        \* temporary .py files that exist on disk
    created,          \* number of temporary files ever created
    procs,            \* number of child processes started
    last,             \* the last operation: [op, arg, raised]
    calls             \* number of bounded operations performed

vars == <<appdata, groq, hasUserTables, hasProjectsTable, projects, users,
          skills, pc, db, user_id, user_name, profile_label, chat,
          output_label, tempFiles, created, procs, last, calls>>

fileVars == <<hasUserTables, hasProjectsTable, projects, users, skills>>
windowVars == <<pc, db, user_id, user_name, profile_label, chat, output_label>>
runVars == <<tempFiles, created, procs>>

\* ------------------------------------------------------------------ bounds
MaxUsers == 2
MaxUpdates == 3
MaxSends == 2
MaxRuns == 3

\* --------------------------------------------------------------- constants
skills_list ==
    << "Python Syntax", "Data Structures", "Algorithms", "Debugging",
       "System Design", "Problem Solving", "Version Control",
       "Testing and QA", "Performance Optimization",
       "Code Readability / Maintenance" >>

\* The five starter projects, by title (description and the ten difficulty
\* columns are fixed data inserted with each title).
starter_projects ==
    << "Hello World Enhancements", "Todo List with Persistence",
       "Binary Search Tree", "Flask REST API", "Multi-threaded Chat Server" >>

\* Inputs the operations are tried with.
SkillInputs == {"Python Syntax", "Debugging", "Rust"}
IntDeltas == {-150, -40, 60, 150}
Names == {"Default User", "Ada"}

Max(a, b) == IF a >= b THEN a ELSE b
Min(a, b) == IF a <= b THEN a ELSE b

\* ---------------------------------------------------------------- database
\* _seed_initial_projects: "if COUNT(*) > 0: return".
AlreadySeededNever(p) == FALSE
AlreadySeeded(p) == Len(p) > 0

\* INSERT with AUTOINCREMENT: the new id follows the largest id ever used;
\* no row is ever deleted, so that is the row count.
InsertProjects(p, titles) ==
    p \o [i \in 1..Len(titles) |-> [id |-> Len(p) + i, title |-> titles[i]]]

_seed_initial_projects(p) ==
    IF AlreadySeeded(p) THEN p ELSE InsertProjects(p, starter_projects)

\* create_tables: CREATE TABLE IF NOT EXISTS projects, then seed.  It creates
\* neither users nor skills.
create_tables(p) == _seed_initial_projects(p)

\* get_all_projects: SELECT id, title ... ORDER BY id.
RECURSIVE SortById(_)
SortById(rows) ==
    IF rows = {} THEN << >>
    ELSE LET m == CHOOSE r \in rows : \A q \in rows : r.id <= q.id
         IN  <<m>> \o SortById(rows \ {m})
get_all_projects(p) == SortById({p[i] : i \in DOMAIN p})

\* new_level = max(0, min(100, current + delta)); Python integers do not
\* overflow.
new_levelUncapped(current, delta) == current + delta
new_level(current, delta) == Max(0, Min(100, current + delta))

\* The rows the WHERE clause of update_skill_level selects.
MatchingAnyUser(sk, uid, name) ==
    {i \in DOMAIN sk : sk[i].skill_name = name}
Matching(sk, uid, name) ==
    {i \in DOMAIN sk : sk[i].user_id = uid /\ sk[i].skill_name = name}

\* fetchone() is None, and None[0] raises TypeError.
UpdateRaises(sk, uid, name) == Matching(sk, uid, name) = {}

\* update_skill_level on a row that exists: SELECT the first match, UPDATE
\* every match.
update_skill_level(sk, uid, name, delta) ==
    LET m == Matching(sk, uid, name)
        first == CHOOSE i \in m : \A j \in m : i <= j
        nl == new_level(sk[first].level, delta)
    IN  [i \in DOMAIN sk |-> IF i \in m THEN [sk[i] EXCEPT !.level = nl] ELSE sk[i]]

\* create_user: INSERT the user, then one skills row per name at level 0.
create_user_users(us, name) == Append(us, [id |-> Len(us) + 1, name |-> name])
create_user_skills(sk, uid) ==
    sk \o [i \in 1..Len(skills_list) |->
              [user_id |-> uid, skill_name |-> skills_list[i], level |-> 0]]

\* get_skills: SELECT skill_name, level FROM skills WHERE user_id = ?
get_skills(sk, uid) ==
    SelectSeq([i \in DOMAIN sk |-> sk[i]], LAMBDA r : r.user_id = uid)
SkillNamesOf(sk, uid) == {r.skill_name : r \in {sk[i] : i \in {j \in DOMAIN sk : sk[j].user_id = uid}}}
Render(sk, uid) ==
    LET g == get_skills(sk, uid)
    IN  [i \in DOMAIN g |-> <<g[i].skill_name, g[i].level>>]

Op(o, a, r) == [op |-> o, arg |-> a, raised |-> r]

\* A file that earlier runs of create_user left n users in.
RECURSIVE UsersAfter(_)
UsersAfter(n) == IF n = 0 THEN << >> ELSE create_user_users(UsersAfter(n - 1), "Ada")
RECURSIVE SkillsAfter(_)
SkillsAfter(n) == IF n = 0 THEN << >> ELSE create_user_skills(SkillsAfter(n - 1), n)

Init ==
    /\ appdata \in BOOLEAN
    /\ groq \in BOOLEAN
    /\ hasUserTables \in BOOLEAN
    /\ hasProjectsTable = FALSE
    /\ projects = << >>
    /\ \E n \in 0..MaxUsers :
          /\ users = IF hasUserTables THEN UsersAfter(n) ELSE << >>
          /\ skills = IF hasUserTables THEN SkillsAfter(n) ELSE << >>
    /\ pc = "off"
    /\ db = "None"
    /\ user_id = 0
    /\ user_name = "User"
    /\ profile_label = [set |-> FALSE, text |-> << >>]
    /\ chat = << >>
    /\ output_label = "none"
    /\ tempFiles = {}
    /\ created = 0
    /\ procs = 0
    /\ last = Op("none", << >>, FALSE)
    /\ calls = 0

\* ------------------------------------------------- Database, called directly
\* Database(): raises RuntimeError without APPDATA; otherwise connects and
\* runs create_tables.  last.arg tells whether the file had the projects
\* table before this initialisation.
DatabaseInit ==
    /\ IF appdata
       THEN /\ db' = "open"
            /\ hasProjectsTable' = TRUE
            /\ projects' = create_tables(projects)
            /\ last' = Op("Database", <<hasProjectsTable>>, FALSE)
       ELSE /\ UNCHANGED <<db, hasProjectsTable, projects>>
            /\ last' = Op("Database", <<hasProjectsTable>>, TRUE)
    /\ UNCHANGED <<appdata, groq, hasUserTables, users, skills, pc, user_id,
                   user_name, profile_label, chat, output_label, runVars, calls>>

\* db.create_user(name): "no such table" when the file lacks the tables.
CreateUser(name) ==
    /\ db = "open"
    /\ Len(users) < MaxUsers
    /\ IF hasUserTables
       THEN /\ users' = create_user_users(users, name)
            /\ skills' = create_user_skills(skills, Len(users) + 1)
            /\ last' = Op("create_user", <<name>>, FALSE)
       ELSE /\ UNCHANGED <<users, skills>>
            /\ last' = Op("create_user", <<name>>, TRUE)
    /\ UNCHANGED <<appdata, groq, hasUserTables, hasProjectsTable, projects,
                   windowVars, runVars, calls>>

\* db.update_skill_level(user_id, skill_name, delta) with an integer delta.
UpdateSkillLevel(uid, name, delta) ==
    /\ db = "open"
    /\ calls < MaxUpdates
    /\ calls' = calls + 1
    /\ IF hasUserTables /\ ~UpdateRaises(skills, uid, name)
       THEN /\ skills' = update_skill_level(skills, uid, name, delta)
            /\ last' = Op("update_skill_level", <<uid, name, delta>>, FALSE)
       ELSE /\ UNCHANGED skills
            /\ last' = Op("update_skill_level", <<uid, name, delta>>, TRUE)
    /\ UNCHANGED <<appdata, groq, hasUserTables, hasProjectsTable, projects,
                   users, windowVars, runVars>>

NextDb ==
    \/ DatabaseInit
    \/ \E name \in Names : CreateUser(name)
    \/ \E uid \in 1..(MaxUsers + 1), name \in SkillInputs, delta \in IntDeltas :
          UpdateSkillLevel(uid, name, delta)

SpecDb == Init /\ [][NextDb]_vars
\* ------------------------------------------------------------------ window
\* Texts typed into the editor or the chat input: sequences of characters.
Texts == {<< >>, <<" ", "\n">>, <<" ", "x", "\n">>}
IsSpace(c) == c \in {" ", "\n"}

\* str.strip(): drop leading and trailing whitespace.
RECURSIVE LStrip(_)
LStrip(t) == IF t # << >> /\ IsSpace(Head(t)) THEN LStrip(Tail(t)) ELSE t
RECURSIVE RStrip(_)
RStrip(t) ==
    IF t # << >> /\ IsSpace(t[Len(t)]) THEN RStrip(SubSeq(t, 1, Len(t) - 1)) ELSE t
strip(t) == RStrip(LStrip(t))

Msg(r, t) == [role |-> r, text |-> t]
NoLabel == [set |-> FALSE, text |-> << >>]

\* What the window's attributes are before __init__ runs.
WindowOff ==
    /\ pc' = "off"
    /\ db' = "None"
    /\ user_id' = 0
    /\ user_name' = "User"
    /\ profile_label' = NoLabel
    /\ chat' = << >>
    /\ output_label' = "none"

\* "SELECT id, name FROM users LIMIT 1": the row of lowest rowid.
FirstUser(us) == us[1]

\* IDEWindow.__init__: the attributes are reset, _setup_profile runs, and
\* the welcome message is appended.  fsOk: mkdir and connect are permitted
\* (otherwise PermissionError).  Both except branches of _setup_profile only
\* add an error label and leave db, user_id and user_name as they are.
Welcome == IF groq THEN <<Msg("assistant", "welcome")>>
           ELSE <<Msg("notice", "groq_missing"), Msg("assistant", "welcome")>>

Startup(fsOk) ==
    /\ pc = "off"
    /\ pc' = "running"
    /\ chat' = Welcome
    /\ output_label' = "ready"
    /\ IF ~appdata \/ ~fsOk
       THEN \* Database() raised RuntimeError or PermissionError
            /\ db' = "None" /\ user_id' = 0 /\ user_name' = "User"
            /\ profile_label' = NoLabel
            /\ UNCHANGED fileVars
            /\ last' = Op("startup", <<fsOk>>, TRUE)
       ELSE /\ db' = "open"
            /\ hasProjectsTable' = TRUE
            /\ projects' = create_tables(projects)
            /\ UNCHANGED hasUserTables
            /\ IF ~hasUserTables
               THEN \* SELECT COUNT(*) FROM users: no such table
                    /\ user_id' = 0 /\ user_name' = "User"
                    /\ profile_label' = NoLabel
                    /\ UNCHANGED <<users, skills>>
                    /\ last' = Op("startup", <<fsOk>>, TRUE)
               ELSE /\ IF Len(users) = 0
                       THEN /\ users' = create_user_users(users, "Default User")
                            /\ skills' = create_user_skills(skills, Len(users) + 1)
                            /\ user_id' = Len(users) + 1
                            /\ user_name' = "Default User"
                       ELSE /\ UNCHANGED <<users, skills>>
                            /\ user_id' = FirstUser(users).id
                            /\ user_name' = FirstUser(users).name
                    /\ profile_label' = [set |-> TRUE, text |-> Render(skills', user_id')]
                    /\ last' = Op("startup", <<fsOk>>, FALSE)
    /\ UNCHANGED <<appdata, groq, runVars, calls>>

\* The window is closed and the process ends.
Close ==
    /\ pc = "running"
    /\ WindowOff
    /\ last' = Op("close", << >>, FALSE)
    /\ UNCHANGED <<appdata, groq, fileVars, runVars, calls>>

\* An exception that leaves a slot: the source installs no excepthook, so
\* the event loop either goes on or the process aborts.
Escaped == pc' \in {"running", "off"}

\* refresh_profile, as a function of the window: the new label and output.
RefreshRaises == db = "open" /\ user_id # 0 /\ ~profile_label.set
RefreshLabel(sk) ==
    IF db = "open" /\ user_id # 0
    THEN [set |-> TRUE, text |-> Render(sk, user_id)]
    ELSE profile_label
RefreshOutput == IF db = "open" /\ user_id # 0 THEN "refreshed" ELSE "no_profile"

\* The "Refresh Profile" button.
RefreshProfile ==
    /\ pc = "running"
    /\ IF RefreshRaises
       THEN /\ Escaped
            /\ UNCHANGED <<profile_label, output_label>>
            /\ last' = Op("refresh_profile", << >>, TRUE)
       ELSE /\ pc' = pc
            /\ profile_label' = RefreshLabel(skills)
            /\ output_label' = RefreshOutput
            /\ last' = Op("refresh_profile", << >>, FALSE)
    /\ UNCHANGED <<appdata, groq, fileVars, db, user_id, user_name, chat,
                   runVars, calls>>

\* ------------------------------------------------------------- send_to_ai
\* A JSON value given as a delta: an integer, or something that is no number
\* (a string, null, a list): [num, val].
Int_(n) == [num |-> TRUE, val |-> n]
NotNum == [num |-> FALSE, val |-> 0]
JsonDeltas == {Int_(60), Int_(-150), NotNum}
Entries == [key : SkillInputs, delta : JsonDeltas]
\* An "updates" map: entries in document order, keys distinct.
UpdateMaps ==
    {<< >>} \cup {<<e>> : e \in Entries}
    \cup {<<p[1], p[2]>> : p \in {q \in Entries \X Entries : q[1].key # q[2].key}}

\* What the API call and the scrape of its reply come to.
\*   no_key     GROQ_API_KEY is not set
\*   api_error  the request raises
\*   plain      the regular expression finds no fragment
\*   bad_json   json.loads raises, or the value has no .get / .items
\*   updates    the fragment parses to an object with an "updates" map
Replies ==
    {[kind |-> k, updates |-> << >>] : k \in {"no_key", "api_error", "plain", "bad_json"}}
    \cup {[kind |-> "updates", updates |-> u] : u \in UpdateMaps}

\* Recorded for a call that returns before the request is made.
NoReply == [kind |-> "none", updates |-> << >>]

\* "if skill in [row[0] for row in self.db.get_skills(self.user_id)]"
KnownSkillAlways(sk, uid, key) == TRUE
KnownSkill(sk, uid, key) == key \in SkillNamesOf(sk, uid)

\* The loop over data["updates"].items(): the skills table it leaves and
\* whether it raised.  current + delta raises TypeError for a delta that is
\* no number, after the SELECT and before the UPDATE.
RECURSIVE ApplyUpdates(_, _, _)
ApplyUpdates(sk, uid, entries) ==
    IF entries = << >> THEN [skills |-> sk, raised |-> FALSE]
    ELSE LET e == Head(entries)
         IN  IF ~KnownSkill(sk, uid, e.key)
             THEN ApplyUpdates(sk, uid, Tail(entries))
             ELSE IF UpdateRaises(sk, uid, e.key) \/ ~e.delta.num
                  THEN [skills |-> sk, raised |-> TRUE]
                  ELSE ApplyUpdates(update_skill_level(sk, uid, e.key, e.delta.val),
                                    uid, Tail(entries))

\* The handler of the "Send" button.  deletePreviousChar() removes at most
\* one character of the display, so the "Thinking..." message stays in the
\* chat; the suffix added for "completed"/"finished" is part of the reply's
\* text.
\* Building system_prompt calls self.db.get_skills before the try block:
\* AttributeError on None, "no such table: skills" on a file without it.
PromptRaises == db = "None" \/ ~hasUserTables

SendToAi(text, reply) ==
    /\ pc = "running"
    /\ calls < MaxSends
    /\ calls' = calls + 1
    /\ LET user_message == strip(text)
           said == Append(chat, Msg("user", "message"))
           thinking == Append(said, Msg("assistant", "thinking"))
       IN
       IF user_message = << >>
       THEN /\ UNCHANGED <<windowVars, fileVars>>
            /\ last' = Op("send_to_ai", <<user_message, NoReply>>, FALSE)
       ELSE IF ~groq
       THEN /\ chat' = Append(said, Msg("assistant", "groq_unavailable"))
            /\ UNCHANGED <<pc, db, user_id, user_name, profile_label,
                           output_label, fileVars>>
            /\ last' = Op("send_to_ai", <<user_message, NoReply>>, FALSE)
       ELSE IF PromptRaises
       THEN /\ chat' = said
            /\ Escaped
            /\ UNCHANGED <<db, user_id, user_name, profile_label,
                           output_label, fileVars>>
            /\ last' = Op("send_to_ai", <<user_message, NoReply>>, TRUE)
       ELSE IF reply.kind \in {"no_key", "api_error"}
       THEN /\ chat' = Append(thinking, Msg("assistant", "api_error"))
            /\ UNCHANGED <<pc, db, user_id, user_name, profile_label,
                           output_label, fileVars>>
            /\ last' = Op("send_to_ai", <<user_message, reply>>, FALSE)
       ELSE IF reply.kind \in {"plain", "bad_json"}
       THEN /\ chat' = Append(thinking, Msg("assistant", "reply"))
            /\ UNCHANGED <<pc, db, user_id, user_name, profile_label,
                           output_label, fileVars>>
            /\ last' = Op("send_to_ai", <<user_message, reply>>, FALSE)
       ELSE LET r == ApplyUpdates(skills, user_id, reply.updates)
            IN  /\ skills' = r.skills
                /\ IF r.raised \/ RefreshRaises
                   THEN /\ UNCHANGED <<profile_label, output_label>>
                        /\ chat' = Append(thinking, Msg("assistant", "reply"))
                   ELSE /\ profile_label' = RefreshLabel(r.skills)
                        /\ output_label' = RefreshOutput
                        /\ chat' = Append(thinking, Msg("assistant", "reply_updated"))
                /\ UNCHANGED <<pc, db, user_id, user_name, hasUserTables,
                               hasProjectsTable, projects, users>>
                /\ last' = Op("send_to_ai", <<user_message, reply>>, FALSE)
    /\ UNCHANGED <<appdata, groq, runVars>>

NextApp ==
    \/ \E fsOk \in BOOLEAN : Startup(fsOk)
    \/ Close
    \/ RefreshProfile
    \/ \E text \in Texts, reply \in Replies : SendToAi(text, reply)

SpecApp == Init /\ [][NextApp]_vars
\* ---------------------------------------------------------------- run_code
\* How far a run gets before something raises, or how the child exits:
\*   tmp_fail    NamedTemporaryFile raises (no file is created)
\*   write_fail  temp_file.write raises (the file exists, delete=False)
\*   popen_fail  subprocess.Popen raises (the child does not start)
\*   comm_fail   process.communicate raises (output is not valid text)
\*   exit0, exit_nonzero   the child ran and returned
RunOutcomes == {"tmp_fail", "write_fail", "popen_fail", "comm_fail", "exit0", "exit_nonzero"}

\* os.unlink(temp_path) is the statement after communicate(), inside the try.
UnlinkReached(outcome) == outcome \in {"exit0", "exit_nonzero"}

FileCreated(outcome) == outcome # "tmp_fail"
ChildStarted(outcome) == outcome \in {"comm_fail", "exit0", "exit_nonzero"}

RunOutput(outcome) ==
    IF outcome = "exit0" THEN "success"
    ELSE IF outcome = "exit_nonzero" THEN "error"
    ELSE "runtime_error"

\* The "Run Code" button.  last.arg: the stripped code, the outcome, and the
\* temporary file this call created (0 for none).
RunCode(text, outcome) ==
    /\ pc = "running"
    /\ calls < MaxRuns
    /\ calls' = calls + 1
    /\ LET code == strip(text)
           temp_path == created + 1
       IN  IF code = << >>
           THEN /\ output_label' = "no_code"
                /\ UNCHANGED runVars
                /\ last' = Op("run_code", <<code, outcome, 0>>, FALSE)
           ELSE /\ output_label' = RunOutput(outcome)
                /\ created' = IF FileCreated(outcome) THEN temp_path ELSE created
                /\ tempFiles' = IF FileCreated(outcome) /\ ~UnlinkReached(outcome)
                                THEN tempFiles \cup {temp_path}
                                ELSE tempFiles
                /\ procs' = IF ChildStarted(outcome) THEN procs + 1 ELSE procs
                /\ last' = Op("run_code",
                              <<code, outcome, IF FileCreated(outcome) THEN temp_path ELSE 0>>,
                              FALSE)
    /\ UNCHANGED <<appdata, groq, fileVars, pc, db, user_id, user_name,
                   profile_label, chat>>

NextRun ==
    \/ \E fsOk \in BOOLEAN : Startup(fsOk)
    \/ Close
    \/ \E text \in Texts, outcome \in RunOutcomes : RunCode(text, outcome)

SpecRun == Init /\ [][NextRun]_vars
\* ================================================================== claims
Clamp(x) == IF x < 0 THEN 0 ELSE IF x > 100 THEN 100 ELSE x
RowIs(r, uid, name) == r.user_id = uid /\ r.skill_name = name

\* C1: after any sequence of create_user and update_skill_level calls with
\* integer deltas of either sign, every stored skill level is an integer in
\* 0..100.
SkillLevelsCapped == \A i \in DOMAIN skills : skills[i].level \in 0..100

\* An update by +150 has left its row at the cap.
SkillLevelsCappedWitness ==
    /\ last.op = "update_skill_level" /\ ~last.raised
    /\ last.arg[3] = 150
    /\ \E i \in DOMAIN skills :
          RowIs(skills[i], last.arg[1], last.arg[2]) /\ skills[i].level = 100

\* C2: update_skill_level on an existing (user_id, skill_name) row with level
\* c sets that row to max(0, min(100, c + delta)) and leaves every other
\* skills row, the users table and the projects table unchanged.
UpdateTouchesOneRow ==
    [][ (last'.op = "update_skill_level" /\ hasUserTables
           /\ \E i \in DOMAIN skills : RowIs(skills[i], last'.arg[1], last'.arg[2]))
        => /\ ~last'.raised
           /\ DOMAIN skills' = DOMAIN skills
           /\ \A i \in DOMAIN skills :
                 IF RowIs(skills[i], last'.arg[1], last'.arg[2])
                 THEN skills'[i] = [skills[i] EXCEPT
                                       !.level = Clamp(skills[i].level + last'.arg[3])]
                 ELSE skills'[i] = skills[i]
           /\ users' = users
           /\ projects' = projects ]_vars

\* Two users hold the updated skill name, and only the addressed row moved.
UpdateTouchesOneRowWitness ==
    /\ last.op = "update_skill_level" /\ ~last.raised
    /\ \E i, j \in DOMAIN skills :
          /\ RowIs(skills[i], last.arg[1], last.arg[2])
          /\ skills[j].user_id # last.arg[1]
          /\ skills[j].skill_name = last.arg[2]
          /\ skills[i].level = 60
          /\ skills[j].level = 0

\* C3: after any number of Database initialisations against the same file the
\* projects table holds exactly the 5 starter projects, get_all_projects
\* returns them in ascending id order, and a second initialisation inserts
\* nothing.
SeededExactlyOnce ==
    /\ [](hasProjectsTable =>
            /\ Len(projects) = 5
            /\ LET got == get_all_projects(projects)
               IN  /\ Len(got) = 5
                   /\ \A i \in 1..5 : got[i].id = i /\ got[i].title = starter_projects[i])
    /\ [][ (last'.op = "Database" /\ hasProjectsTable) => projects' = projects ]_vars

\* A Database() that found the projects table already there has returned.
SeededExactlyOnceWitness ==
    /\ last.op = "Database" /\ ~last.raised
    /\ last.arg[1] = TRUE
    /\ Len(projects) = 5

\* C4: profile setup at startup always yields a loaded profile, also from a
\* fresh database file: with no users it creates "Default User" with the 10
\* named skills at level 0 and sets user_id; with a user present it loads the
\* first user's id and name and creates nothing.
ProfileAlwaysLoaded ==
    [][ (last'.op = "startup" /\ appdata /\ last'.arg[1])
        => IF Len(users) = 0
           THEN /\ users' = <<[id |-> 1, name |-> "Default User"]>>
                /\ user_id' = 1
                /\ user_name' = "Default User"
                /\ skills' = [i \in 1..10 |->
                                 [user_id |-> 1, skill_name |-> skills_list[i], level |-> 0]]
           ELSE /\ users' = users
                /\ skills' = skills
                /\ user_id' = users[1].id
                /\ user_name' = users[1].name ]_vars

\* The reply of the last send_to_ai carried an "updates" map.
UpdatesReceived(l) == l.op = "send_to_ai" /\ l.arg[2].kind = "updates"
KeyKnown(e) == \E i \in DOMAIN skills : RowIs(skills[i], user_id, e.key)

\* C5 as stated: every entry whose key is one of the user's skill names has
\* its delta applied, clamped to 0..100; entries with other keys are ignored
\* without error; no other row changes.
EveryKnownEntryApplied ==
    [][ UpdatesReceived(last')
        => LET u == last'.arg[2].updates
           IN  /\ ~last'.raised
               /\ DOMAIN skills' = DOMAIN skills
               /\ \A i \in DOMAIN skills :
                     IF \E j \in DOMAIN u : RowIs(skills[i], user_id, u[j].key)
                     THEN \A j \in DOMAIN u :
                             (RowIs(skills[i], user_id, u[j].key) /\ u[j].delta.num)
                             => skills'[i].level = Clamp(skills[i].level + u[j].delta.val)
                     ELSE skills'[i] = skills[i] ]_vars

\* C5, amended: the entries are taken in order; an entry with a known key and
\* an integer delta is applied, clamped to 0..100, as long as no known-key
\* entry with a delta that is no number came before it; that entry and all
\* after it change nothing; entries with other keys are ignored; no other
\* row changes and no exception leaves the handler.
Stop(u) ==
    LET bad == {j \in DOMAIN u : KeyKnown(u[j]) /\ ~u[j].delta.num}
    IN  IF bad = {} THEN Len(u) + 1 ELSE CHOOSE j \in bad : \A k \in bad : j <= k

KnownEntriesAppliedUntilBadDelta ==
    [][ UpdatesReceived(last')
        => LET u == last'.arg[2].updates
               stop == Stop(u)
           IN  /\ ~last'.raised
               /\ DOMAIN skills' = DOMAIN skills
               /\ users' = users
               /\ \A i \in DOMAIN skills :
                     IF \E j \in 1..(stop - 1) : RowIs(skills[i], user_id, u[j].key)
                     THEN \A j \in 1..(stop - 1) :
                             RowIs(skills[i], user_id, u[j].key)
                             => skills'[i] = [skills[i] EXCEPT
                                     !.level = Clamp(skills[i].level + u[j].delta.val)]
                     ELSE skills'[i] = skills[i] ]_vars

\* A reply naming an unknown skill and then a known one has been applied
\* while another user holds the same skill name.
KnownEntriesAppliedWitness ==
    /\ UpdatesReceived(last)
    /\ last.arg[2].updates = << [key |-> "Rust", delta |-> Int_(60)],
                                [key |-> "Python Syntax", delta |-> Int_(60)] >>
    /\ \E i, j \in DOMAIN skills :
          /\ RowIs(skills[i], user_id, "Python Syntax") /\ skills[i].level = 60
          /\ skills[j].user_id # user_id /\ skills[j].skill_name = "Python Syntax"
          /\ skills[j].level = 0

\* C6: on every path by which run_code returns, the temporary file it created
\* no longer exists; with empty or whitespace-only code it creates no file,
\* starts no process and sets the output to "No code to run."
TempFileCleanedUp ==
    /\ [](last.op = "run_code" => last.arg[3] \notin tempFiles)
    /\ [][ (last'.op = "run_code" /\ last'.arg[1] = << >>)
           => /\ tempFiles' = tempFiles /\ created' = created /\ procs' = procs
              /\ output_label' = "no_code" ]_vars

\* C7: send_to_ai never lets an exception escape: with a non-empty message
\* and Groq available it ends with an assistant message after the user's
\* message and returns normally; with an empty or whitespace-only message it
\* changes nothing.
SendNeverEscapes ==
    /\ []((last.op = "send_to_ai" /\ last.arg[1] # << >> /\ groq)
            => /\ ~last.raised
               /\ Len(chat) >= 2
               /\ chat[Len(chat)].role = "assistant"
               /\ \E i \in 1..(Len(chat) - 1) : chat[i].role = "user")
    /\ [][ (last'.op = "send_to_ai" /\ last'.arg[1] = << >>)
           => UNCHANGED <<fileVars, windowVars, runVars>> ]_vars
====
